---- MODULE Spec2Model ----
(***************************************************************************)
(* Poltergeist secret scanner: the two pattern engines (pkg/engine.go),    *)
(* their match post-processing (redaction, entropy qualification) and the  *)
(* parallel directory scanner (pkg/scanner.go).                            *)
(*                                                                         *)
(* Text is a sequence of one-byte characters.  Offsets in MatchResult are  *)
(* Go offsets: 0-based, half-open [Start, End).                            *)
(* Entropy is kept in thousandths of a bit (fixed point).                  *)
(***************************************************************************)
EXTENDS Integers, Sequences, FiniteSets, Bags, TLC

\* ------------------------------------------------------------------ bounds
\* longest run of one character in a generated line
MaxRun == 5
\* entries of the walked tree
MaxFiles == 2
\* largest WorkerCount tried
MaxWorkers == 2
\* capacity of the jobs channel (1000 in the source, scaled)
JobsCap == 1
\* capacity of the results channel (1000 in the source, scaled)
ResultsCap == 1

\* ------------------------------------------------------------- characters
Chars == {"a", "b", "*"}

Min(x, y) == IF x <= y THEN x ELSE y

\* strings.Repeat(c, n)
Repeat(c, n) == [i \in 1..n |-> c]

\* Go slice s[lo:hi] of a string, 0-based half-open
Slice(s, lo, hi) == SubSeq(s, lo + 1, hi)

\* strings.Contains(s, sub)
Contains(s, sub) ==
  \E i \in 0..(Len(s) - Len(sub)) : Slice(s, i, i + Len(sub)) = sub

\* strings.LastIndex(s, sub): the largest offset at which sub occurs, -1 if none
LastIndex(s, sub) ==
  LET occ == {i \in 0..(Len(s) - Len(sub)) : Slice(s, i, i + Len(sub)) = sub}
  IN  IF occ = {} THEN -1 ELSE CHOOSE i \in occ : \A j \in occ : j <= i

\* ---------------------------------------------------------------- entropy
\* math.Log2(k) in thousandths, for the counts a generated line can have
Log2Milli(k) ==
  CASE k = 1 -> 0     [] k = 2 -> 1000  [] k = 3 -> 1585  [] k = 4 -> 2000
    [] k = 5 -> 2322  [] k = 6 -> 2585  [] k = 7 -> 2807  [] k = 8 -> 3000
    [] k = 9 -> 3170  [] k = 10 -> 3322 [] k = 11 -> 3459 [] k = 12 -> 3585
    [] k = 13 -> 3700 [] k = 14 -> 3807 [] k = 15 -> 3907 [] k = 16 -> 4000
    [] k = 17 -> 4087 [] k = 18 -> 4170 [] k = 19 -> 4248 [] k = 20 -> 4322
    [] k = 21 -> 4392 [] k = 22 -> 4459 [] k = 23 -> 4524 [] k = 24 -> 4585
    [] OTHER -> 4700

RECURSIVE SumOver(_, _)
SumOver(S, f) ==
  IF S = {} THEN 0
  ELSE LET x == CHOOSE y \in S : TRUE IN f[x] + SumOver(S \ {x}, f)

\* ShannonEntropy: -sum p(c)*log2 p(c) over the distinct characters of s
ShannonEntropy(s) ==
  LET n      == Len(s)
      used   == {s[i] : i \in 1..n}
      counts == [c \in used |-> Cardinality({i \in 1..n : s[i] = c})]
      terms  == [c \in used |-> counts[c] * (Log2Milli(n) - Log2Milli(counts[c]))]
  IN  IF n = 0 THEN 0 ELSE SumOver(used, terms) \div n

\* -------------------------------------------------------------- redaction
\* Redact with the run of asterisks as long as the match
RedactNoCap(match, R) ==
  IF Len(R) > 0 /\ R[1] > 0 /\ R[2] > 0 /\ Len(match) > R[1] + R[2]
  THEN Slice(match, 0, R[1]) \o Repeat("*", Len(match))
         \o Slice(match, Len(match) - R[2], Len(match))
  ELSE IF Len(match) > 8
  THEN Slice(match, 0, 4) \o Repeat("*", Min(5, Len(match) - 8))
         \o Slice(match, Len(match) - 4, Len(match))
  ELSE Repeat("*", Len(match))

\* the redaction block reads Redact[1] of a one-element list whose Redact[0]
\* is positive: index out of range, the goroutine panics
RedactPanics(R) == Len(R) = 1 /\ R[1] > 0

\* the redaction block of the four find paths (no value when it panics)
Redact(match, R) ==
  IF RedactPanics(R) THEN <<>>
  ELSE IF Len(R) > 0 /\ R[1] > 0 /\ R[2] > 0 /\ Len(match) > R[1] + R[2]
  THEN Slice(match, 0, R[1]) \o Repeat("*", Min(5, Len(match)))
         \o Slice(match, Len(match) - R[2], Len(match))
  ELSE IF Len(match) > 8
  THEN Slice(match, 0, 4) \o Repeat("*", Min(5, Len(match) - 8))
         \o Slice(match, Len(match) - 4, Len(match))
  ELSE Repeat("*", Len(match))

\* ------------------------------------------------------- regular expressions
\* A pattern is the regex  pre ( [cls]{min,} )  : a literal prefix followed by
\* a greedy run of at least min characters of a class; cap says whether the
\* run is a capture group.  goOK / hsOK: the pattern compiles with regexp /
\* with Hyperscan; nil marks the absent regex.
\* `[a*]+`
PatRun == [pre |-> <<>>, cls |-> {"a", "*"}, min |-> 1, cap |-> FALSE,
           goOK |-> TRUE, hsOK |-> TRUE, nil |-> FALSE]
\* `b([a*]{2,})`
PatKey == [pre |-> <<"b">>, cls |-> {"a", "*"}, min |-> 2, cap |-> TRUE,
           goOK |-> TRUE, hsOK |-> TRUE, nil |-> FALSE]
\* `[a*]+` written with a construct only Hyperscan accepts
PatHsOnly == [pre |-> <<>>, cls |-> {"a", "*"}, min |-> 1, cap |-> FALSE,
              goOK |-> FALSE, hsOK |-> TRUE, nil |-> FALSE]
\* a nil *regexp.Regexp
NilPat == [pre |-> <<>>, cls |-> {}, min |-> 0, cap |-> FALSE,
           goOK |-> FALSE, hsOK |-> FALSE, nil |-> TRUE]

\* length of the run of class characters of s that starts at offset k
RECURSIVE RunLen(_, _, _)
RunLen(s, k, cls) ==
  IF k < Len(s) /\ s[k + 1] \in cls THEN 1 + RunLen(s, k + 1, cls) ELSE 0

\* the pattern matches s starting at offset i
MatchAt(P, s, i) ==
  /\ i + Len(P.pre) <= Len(s)
  /\ Slice(s, i, i + Len(P.pre)) = P.pre
  /\ RunLen(s, i + Len(P.pre), P.cls) >= P.min

\* leftmost offset >= k at which the pattern matches, -1 if none
FirstMatchFrom(P, s, k) ==
  LET starts == {i \in k..Len(s) : MatchAt(P, s, i)}
  IN  IF starts = {} THEN -1 ELSE CHOOSE i \in starts : \A j \in starts : i <= j

\* end offset of the (greedy) match that starts at i
MatchEndAt(P, s, i) == i + Len(P.pre) + RunLen(s, i + Len(P.pre), P.cls)

\* regexp.FindAllIndex(s, -1): successive non-overlapping leftmost matches
RECURSIVE FindAllIndexFrom(_, _, _)
FindAllIndexFrom(P, s, k) ==
  LET i == FirstMatchFrom(P, s, k)
  IN  IF i < 0 THEN <<>>
      ELSE <<<<i, MatchEndAt(P, s, i)>>>> \o FindAllIndexFrom(P, s, MatchEndAt(P, s, i))

FindAllIndex(P, s) == FindAllIndexFrom(P, s, 0)

\* regexp.FindAllString(s, -1): the texts of the same matches
FindAllString(P, s) ==
  LET ix == FindAllIndex(P, s)
  IN  [k \in 1..Len(ix) |-> Slice(s, ix[k][1], ix[k][2])]

\* regexp.FindStringSubmatch(s): <<whole match, capture groups...>> of the
\* leftmost match, <<>> if there is none
FindStringSubmatch(P, s) ==
  LET i == FirstMatchFrom(P, s, 0)
  IN  IF i < 0 THEN <<>>
      ELSE IF P.cap
      THEN <<Slice(s, i, MatchEndAt(P, s, i)),
             Slice(s, i + Len(P.pre), MatchEndAt(P, s, i))>>
      ELSE <<Slice(s, i, MatchEndAt(P, s, i))>>

\* Hyperscan block scan of one SingleMatch pattern without start-of-match:
\* the first reported end offset (from is reported as 0), -1 if no match
HsFirstEnd(P, s) ==
  LET i == FirstMatchFrom(P, s, 0)
  IN  IF i < 0 THEN -1 ELSE i + Len(P.pre) + P.min

\* ------------------------------------------------------------------ rules
\* Rule.ToRuntimeRule: the fields matching needs
ToRuntimeRule(r) ==
  [Name |-> r.Name, ID |-> r.ID, Pattern |-> r.Pattern,
   Redact |-> r.Redact, Entropy |-> r.Entropy]

\* redaction lists and entropy thresholds (thousandths of a bit) of the catalogs
RedactChoices == {<<>>, <<1, 1>>, <<4, 4>>, <<2, 0>>}
EntropyChoices == {0, 1000}

MkRule(id, pat, red, ent) ==
  [Name |-> "Rule " \o id, ID |-> id, Pattern |-> pat, Redact |-> red, Entropy |-> ent]

\* the rule lists handed to CompileRules
Catalogs ==
  { << MkRule("generic.1", PatRun, red, ent), MkRule("anthropic.1", PatKey, red, 0) >>
      : red \in RedactChoices, ent \in EntropyChoices }
  \cup { << MkRule("anthropic.1", PatKey, red, 1000) >> : red \in RedactChoices }
  \cup { << MkRule("cli.pattern.1", PatHsOnly, red, 0), MkRule("generic.1", PatRun, red, 1000) >>
          : red \in {<<>>, <<1, 1>>} }

\* the scanned lines: three runs of at most MaxRun equal characters
Lines ==
  { Repeat(c1, n1) \o Repeat(c2, n2) \o Repeat(c3, n3) :
      <<c1, c2, c3>> \in {"a", "b"} \X {"*", "b"} \X {"a", "b"},
      <<n1, n2, n3>> \in (0..MaxRun) \X (0..MaxRun) \X (0..MaxRun) }

\* ---------------------------------------------------------------- engines
VARIABLES
  catalog,   \* the rule list the caller loaded
  unit,      \* the line or buffer handed to the find calls
  engine,    \* the PatternEngine in use: a HyperscanEngine or a GoRegexEngine
  out        \* what the last find call returned, with the rules it ran on

\* the parallel scanner (Scanner.ScanDirectory and its goroutines)
VARIABLES
  tree,        \* the entries filepath.Walk visits, in walk order
  WorkerCount, \* Scanner.WorkerCount
  mainpc,      \* where ScanDirectory is: walk, wait, waitDone, returned
  walkPos,     \* index of the entry the walk callback is called for next
  jobs,        \* the jobs channel: indices of the enqueued entries
  jobsClosed,  \* close(jobs) has happened
  results,     \* the results channel
  resultsClosed, \* close(results) has happened
  wpc,         \* per worker: recv, scan, send, exited
  wjob,        \* per worker: the job it holds
  wpend,       \* per worker: fileResults not yet sent
  cpc,         \* the collector goroutine: collect, signal, done
  allResults,  \* the list the collector appends to
  ret,         \* the list ScanDirectory returned
  Metrics,     \* Scanner.Metrics
  counted,     \* history: per entry, how often it was counted scanned / skipped
  sent,        \* history: every result a worker sent
  panicked,    \* a goroutine sent on a closed channel
  cancelRequested, \* the caller wants the scan to stop
  lateTakes    \* history: jobs received after the caller asked to stop

scanVars == <<tree, WorkerCount, mainpc, walkPos, jobs, jobsClosed, results,
              resultsClosed, wpc, wjob, wpend, cpc, allResults, ret, Metrics,
              counted, sent, panicked, cancelRequested, lateTakes>>

engineVars == <<catalog, unit, engine, out>>

\* the engine's life cycle and the scratch pool of a HyperscanEngine
VARIABLES
  closed,      \* history: Close has been called since the last CompileRules
  scratchPool, \* the scratches at rest in HyperscanEngine.scratchPool
  scratchMade, \* how many scratches the pool's New function has allocated
  call         \* per caller: the find call it is in, and the scratch it holds

poolVars == <<closed, scratchPool, scratchMade, call>>

\* no find call is in flight and the pool holds nothing
PoolIdle ==
  /\ closed = FALSE
  /\ scratchPool = {}
  /\ scratchMade = 0
  /\ call = <<>>

NoOut == [engine |-> "none", path |-> "none", panic |-> FALSE,
          results |-> <<>>, rules |-> <<>>]

\* a nil error, and the errors CompileRules builds with fmt.Errorf: the text
\* names a rule and, in the Hyperscan message only, quotes its pattern
NoErr == [failed |-> FALSE, rule |-> "", withPattern |-> FALSE, pattern |-> NilPat]
GoCompileErr(rule) ==
  [failed |-> TRUE, rule |-> rule.Name, withPattern |-> FALSE, pattern |-> NilPat]
HsCompileErr(rule) ==
  [failed |-> TRUE, rule |-> rule.Name, withPattern |-> TRUE, pattern |-> rule.Pattern]

\* index of the first rule whose pattern does not compile with the backend
\* ("goOK": regexp.Compile, "hsOK": hyperscan.NewBlockDatabase), 0 if all do
FirstBad(rules, backend) ==
  LET bad == {i \in 1..Len(rules) : ~rules[i].Pattern[backend]}
  IN  IF bad = {} THEN 0 ELSE CHOOSE i \in bad : \A j \in bad : i <= j

\* EntropyMet with a strict comparison
EntropyMetStrict(entropy, threshold) == entropy > threshold

\* entropyMet := entropy >= rule.Entropy
EntropyMet(entropy, threshold) == entropy >= threshold

\* the MatchResult literal appended by the find paths
MatchResult(from, to, match, redacted, rule) ==
  [Start |-> from, End |-> to, Match |-> match, Redacted |-> redacted,
   RuleName |-> rule.Name, RuleID |-> rule.ID,
   Entropy |-> ShannonEntropy(match),
   RuleEntropyThreshold |-> rule.Entropy,
   RuleEntropyThresholdMet |-> EntropyMet(ShannonEntropy(match), rule.Entropy)]

\* quickMatchWithRegex taking the whole first match instead of the last group
quickMatchWholeMatch(line, re) ==
  IF re.nil THEN <<>>
  ELSE LET cg == FindStringSubmatch(re, line)
       IN  IF Len(cg) = 0 THEN <<>>
           ELSE <<LastIndex(line, cg[1]), LastIndex(line, cg[1]) + Len(cg[1])>>

\* quickMatchWithRegex: the span of the last capture group of the first match,
\* located by its last occurrence in the line; <<>> (nil) when there is no
\* regex or no match
quickMatchWithRegex(line, re) ==
  IF re.nil THEN <<>>
  ELSE LET cg == FindStringSubmatch(re, line)
       IN  IF Len(cg) = 0 THEN <<>>
           ELSE LET lastMatch      == cg[Len(cg)]
                    lastMatchIndex == LastIndex(line, lastMatch)
                IN  <<lastMatchIndex, lastMatchIndex + Len(lastMatch)>>

\* GoRegexEngine.CompileRules: rules are stored first, patterns are filled up
\* to the first one that does not compile
GoCompiled(rules) ==
  LET bad == FirstBad(rules, "goOK")
  IN  [rules    |-> [i \in 1..Len(rules) |-> ToRuntimeRule(rules[i])],
       patterns |-> [i \in 1..Len(rules) |->
                       IF bad = 0 \/ i < bad THEN rules[i].Pattern ELSE NilPat],
       err      |-> IF bad = 0 THEN NoErr ELSE GoCompileErr(rules[bad])]

\* HyperscanEngine.CompileRules: rules and refiner regexes are stored first;
\* the database is replaced only when every pattern compiles
HsCompiled(e, rules) ==
  LET bad == FirstBad(rules, "hsOK")
  IN  [rules           |-> [i \in 1..Len(rules) |-> ToRuntimeRule(rules[i])],
       goRegexPatterns |-> [i \in 1..Len(rules) |->
                              IF rules[i].Pattern.goOK THEN rules[i].Pattern ELSE NilPat],
       database        |-> IF bad = 0
                           THEN [state    |-> "open", frees |-> 0,
                                 patterns |-> [i \in 1..Len(rules) |-> rules[i].Pattern]]
                           ELSE e.database,
       err             |-> IF bad = 0 THEN NoErr ELSE HsCompileErr(rules[bad])]

\* one callback of HyperscanEngine.FindAllInLine for pattern id
HsLineCallback(e, line, id) ==
  LET to0     == HsFirstEnd(e.database.patterns[id], line)
      rule    == e.rules[id]
      matches == quickMatchWithRegex(line, e.goRegexPatterns[id])
      from    == IF Len(matches) > 0 THEN matches[1] ELSE 0
      to      == IF Len(matches) > 0 THEN matches[2] ELSE to0
      match   == Slice(line, from, to)
  IN  MatchResult(from, to, match, Redact(match, rule.Redact), rule)

\* one callback of HyperscanEngine.FindAllInContent for pattern id
HsContentCallback(e, content, id) ==
  LET to    == HsFirstEnd(e.database.patterns[id], content)
      rule  == e.rules[id]
      match == Slice(content, 0, to)
  IN  MatchResult(0, to, match, Redact(match, rule.Redact), rule)

\* the orders in which database.Scan may invoke the callback: every pattern
\* that matches is reported once, by nondecreasing end offset
ScanOrders(db, text) ==
  LET hit == {i \in 1..Len(db) : HsFirstEnd(db[i], text) >= 0}
      n   == Cardinality(hit)
  IN  {o \in [1..n -> hit] :
         /\ \A i, j \in 1..n : i < j => o[i] # o[j]
         /\ \A i, j \in 1..n :
              i < j => HsFirstEnd(db[o[i]], text) <= HsFirstEnd(db[o[j]], text)}

\* scanning a database that Close has freed is a use after free: the scan may
\* run as before, fail with an error (the find call then returns nil), or fault
UseAfterFree(e) == e.database.state = "freed"
ScanFailures(e) == IF UseAfterFree(e) THEN {<<>>} ELSE {}
ScanFaults(e) == IF UseAfterFree(e) THEN BOOLEAN ELSE {FALSE}

\* what HyperscanEngine.FindAllInLine may return: nil without a database,
\* else the callbacks' results in one of the scan orders
HsLineResults(e, line) ==
  IF e.database.state = "nil" THEN {<<>>}
  ELSE {[i \in 1..Len(o) |-> HsLineCallback(e, line, o[i])] :
          o \in ScanOrders(e.database.patterns, line)} \cup ScanFailures(e)

\* what HyperscanEngine.FindAllInContent may return
HsContentResults(e, content) ==
  IF e.database.state = "nil" THEN {<<>>}
  ELSE {[i \in 1..Len(o) |-> HsContentCallback(e, content, o[i])] :
          o \in ScanOrders(e.database.patterns, content)} \cup ScanFailures(e)

\* the i-th match of pattern k in GoRegexEngine.FindAllInLine
GoLineResult(e, line, k, i) ==
  LET match == FindAllString(e.patterns[k], line)[i]
  IN  MatchResult(0, 0, match, Redact(match, e.rules[k].Redact), e.rules[k])

\* the i-th match of pattern k in GoRegexEngine.FindAllInContent
GoContentResult(e, content, k, i) ==
  LET m         == FindAllIndex(e.patterns[k], content)[i]
      matchText == Slice(content, m[1], m[2])
  IN  MatchResult(m[1], m[2], matchText, Redact(matchText, e.rules[k].Redact), e.rules[k])

\* the loop over e.patterns of the two GoRegexEngine find paths
RECURSIVE GoCollect(_, _, _, _)
GoCollect(e, text, k, path) ==
  IF k > Len(e.patterns) THEN <<>>
  ELSE LET n == Len(FindAllIndex(e.patterns[k], text))
       IN  [i \in 1..n |-> IF path = "line" THEN GoLineResult(e, text, k, i)
                                            ELSE GoContentResult(e, text, k, i)]
             \o GoCollect(e, text, k + 1, path)

\* calling a method of a nil *regexp.Regexp faults
GoFaults(e) == \E k \in 1..Len(e.patterns) : e.patterns[k].nil

GoFindAllInLine(e, line) ==
  IF GoFaults(e) THEN <<>> ELSE GoCollect(e, line, 1, "line")

GoFindAllInContent(e, content) ==
  IF GoFaults(e) THEN <<>> ELSE GoCollect(e, content, 1, "content")

\* no scan is running: a Scanner over an empty tree, before ScanDirectory
ScanIdle ==
  /\ tree = <<>>
  /\ WorkerCount = 1
  /\ mainpc = "idle"
  /\ walkPos = 1
  /\ jobs = <<>> /\ jobsClosed = FALSE
  /\ results = <<>> /\ resultsClosed = FALSE
  /\ wpc = <<"idle">> /\ wjob = <<0>> /\ wpend = << <<>> >>
  /\ cpc = "idle"
  /\ allResults = <<>> /\ ret = <<>>
  /\ Metrics = [FilesScanned |-> 0, FilesSkipped |-> 0, TotalBytes |-> 0, MatchesFound |-> 0]
  /\ counted = <<>>
  /\ sent = <<>>
  /\ panicked = FALSE
  /\ cancelRequested = FALSE
  /\ lateTakes = 0

\* NewHyperscanEngine / NewGoRegexEngine: the zero-valued engines
NewHyperscanEngine ==
  [kind |-> "hyperscan", database |-> [state |-> "nil", frees |-> 0, patterns |-> <<>>],
   rules |-> <<>>, goRegexPatterns |-> <<>>]
NewGoRegexEngine == [kind |-> "go", rules |-> <<>>, patterns |-> <<>>]

EngineInit ==
  /\ catalog \in Catalogs
  /\ unit \in Lines
  /\ engine \in {NewHyperscanEngine, NewGoRegexEngine}
  /\ out = NoOut
  /\ ScanIdle
  /\ PoolIdle

\* HyperscanEngine.CompileRules(catalog)
HsCompileRules ==
  /\ engine.kind = "hyperscan"
  /\ engine' = [kind            |-> "hyperscan",
                database        |-> HsCompiled(engine, catalog).database,
                rules           |-> HsCompiled(engine, catalog).rules,
                goRegexPatterns |-> HsCompiled(engine, catalog).goRegexPatterns]
  /\ out' = [engine |-> "hyperscan", path |-> "compile", panic |-> FALSE,
             results |-> <<>>, rules |-> HsCompiled(engine, catalog).rules,
             err |-> HsCompiled(engine, catalog).err]
  /\ closed' = (closed /\ HsCompiled(engine, catalog).err.failed)
  /\ UNCHANGED <<catalog, unit, scanVars, scratchPool, scratchMade, call>>

\* GoRegexEngine.CompileRules(catalog)
GoCompileRules ==
  /\ engine.kind = "go"
  /\ engine' = [kind     |-> "go",
                rules    |-> GoCompiled(catalog).rules,
                patterns |-> GoCompiled(catalog).patterns]
  /\ out' = [engine |-> "go", path |-> "compile", panic |-> FALSE,
             results |-> <<>>, rules |-> GoCompiled(catalog).rules,
             err |-> GoCompiled(catalog).err]
  /\ closed' = (closed /\ GoCompiled(catalog).err.failed)
  /\ UNCHANGED <<catalog, unit, scanVars, scratchPool, scratchMade, call>>

\* a callback of the Hyperscan find paths panics in its redaction block
HsRedactPanics(e, text) ==
  \E id \in 1..Len(e.database.patterns) :
    HsFirstEnd(e.database.patterns[id], text) >= 0 /\ RedactPanics(e.rules[id].Redact)

\* the loop of the Go find paths panics in its redaction block
GoRedactPanics(e, text) ==
  /\ ~GoFaults(e)
  /\ \E k \in 1..Len(e.patterns) :
       FindAllIndex(e.patterns[k], text) # <<>> /\ RedactPanics(e.rules[k].Redact)

\* HyperscanEngine.FindAllInLine(unit)
HsFindAllInLine ==
  /\ engine.kind = "hyperscan"
  /\ \E rs \in HsLineResults(engine, unit), fault \in ScanFaults(engine) :
       out' = [engine |-> "hyperscan", path |-> "line",
               panic |-> fault \/ HsRedactPanics(engine, unit),
               results |-> IF fault \/ HsRedactPanics(engine, unit) THEN <<>> ELSE rs,
               rules |-> engine.rules]
  /\ UNCHANGED <<catalog, unit, engine, scanVars, poolVars>>

\* HyperscanEngine.FindAllInContent(unit)
HsFindAllInContent ==
  /\ engine.kind = "hyperscan"
  /\ \E rs \in HsContentResults(engine, unit), fault \in ScanFaults(engine) :
       out' = [engine |-> "hyperscan", path |-> "content",
               panic |-> fault \/ HsRedactPanics(engine, unit),
               results |-> IF fault \/ HsRedactPanics(engine, unit) THEN <<>> ELSE rs,
               rules |-> engine.rules]
  /\ UNCHANGED <<catalog, unit, engine, scanVars, poolVars>>

\* GoRegexEngine.FindAllInLine(unit)
GoFindAllInLineCall ==
  /\ engine.kind = "go"
  /\ out' = [engine |-> "go", path |-> "line",
             panic |-> GoFaults(engine) \/ GoRedactPanics(engine, unit),
             results |-> IF GoRedactPanics(engine, unit) THEN <<>>
                         ELSE GoFindAllInLine(engine, unit),
             rules |-> engine.rules]
  /\ UNCHANGED <<catalog, unit, engine, scanVars, poolVars>>

\* GoRegexEngine.FindAllInContent(unit)
GoFindAllInContentCall ==
  /\ engine.kind = "go"
  /\ out' = [engine |-> "go", path |-> "content",
             panic |-> GoFaults(engine) \/ GoRedactPanics(engine, unit),
             results |-> IF GoRedactPanics(engine, unit) THEN <<>>
                         ELSE GoFindAllInContent(engine, unit),
             rules |-> engine.rules]
  /\ UNCHANGED <<catalog, unit, engine, scanVars, poolVars>>

\* how often the caller calls Close on one database
MaxCloses == 2

\* what database.Close() returns: nil for the first call; a later call frees
\* the freed database again, and may return nil, return an error, or fault
CloseOutcomes(db) ==
  IF db.frees = 0 THEN {[err |-> FALSE, fault |-> FALSE]}
  ELSE {[err |-> FALSE, fault |-> FALSE], [err |-> TRUE, fault |-> FALSE],
        [err |-> FALSE, fault |-> TRUE]}

\* HyperscanEngine.Close(): database.Close() whenever the database is not nil;
\* the field is left as it is
HsClose ==
  /\ engine.kind = "hyperscan"
  /\ engine.database.frees < MaxCloses
  /\ IF engine.database.state = "nil"
     THEN /\ out' = [engine |-> "hyperscan", path |-> "close", panic |-> FALSE,
                     results |-> <<>>, rules |-> engine.rules, err |-> FALSE]
          /\ UNCHANGED engine
     ELSE /\ \E o \in CloseOutcomes(engine.database) :
               out' = [engine |-> "hyperscan", path |-> "close", panic |-> o.fault,
                       results |-> <<>>, rules |-> engine.rules, err |-> o.err]
          /\ engine' = [engine EXCEPT !.database.state = "freed",
                                      !.database.frees = @ + 1]
  /\ closed' = TRUE
  /\ UNCHANGED <<catalog, unit, scanVars, scratchPool, scratchMade, call>>

\* GoRegexEngine.Close(): return nil
GoClose ==
  /\ engine.kind = "go"
  /\ out' = [engine |-> "go", path |-> "close", panic |-> FALSE,
             results |-> <<>>, rules |-> engine.rules, err |-> FALSE]
  /\ closed' = TRUE
  /\ UNCHANGED <<catalog, unit, engine, scanVars, scratchPool, scratchMade, call>>

EngineNext ==
  \/ HsCompileRules
  \/ GoCompileRules
  \/ HsFindAllInLine
  \/ HsFindAllInContent
  \/ GoFindAllInLineCall
  \/ GoFindAllInContentCall

vars == <<engineVars, scanVars, poolVars>>

SpecEngine == EngineInit /\ [][EngineNext]_vars

\* ------------------------------------------------- claims about the engines
\* the results of the last find call
Emitted == {out.results[i] : i \in 1..Len(out.results)}

\* the rule of the engine whose id a result carries
RuleOf(r) == CHOOSE k \in 1..Len(out.rules) : out.rules[k].ID = r.RuleID

\* the redaction pair of a rule; an absent list keeps nothing
PairOf(rule) == IF Len(rule.Redact) = 2 THEN rule.Redact ELSE <<0, 0>>

\* C1: every emitted result with a non-empty Match has a Redacted text that
\* differs from Match and contains at least one '*'.
C1_RedactedNeverRaw ==
  \A r \in Emitted :
    Len(r.Match) >= 1 => r.Redacted # r.Match /\ Contains(r.Redacted, <<"*">>)

\* redaction as the specification words it, for a pair (p, s)
SpecRedaction(m, p, s) ==
  LET L == Len(m)
      stars(n) == [i \in 1..n |-> "*"]
  IN  CASE p > 0 /\ s > 0 /\ L > p + s ->
             SubSeq(m, 1, p) \o stars(IF L < 5 THEN L ELSE 5) \o SubSeq(m, L - s + 1, L)
        [] ~(p > 0 /\ s > 0 /\ L > p + s) /\ L > 8 ->
             SubSeq(m, 1, 4) \o stars(IF L - 8 < 5 THEN L - 8 ELSE 5) \o SubSeq(m, L - 3, L)
        [] OTHER -> stars(L)

C3_SpanCorrect ==
  \A r \in Emitted :
    /\ 0 <= r.Start /\ r.Start <= r.End /\ r.End <= Len(unit)
    /\ Slice(unit, r.Start, r.End) = r.Match

\* C4: RuleEntropyThresholdMet is true exactly when the entropy computed for
\* Match is at least the rule's threshold, and RuleEntropyThreshold is the
\* threshold of the rule whose id the result carries (so threshold 0 always
\* gives true).
C4_EntropyThreshold ==
  \A r \in Emitted :
    /\ r.Entropy = ShannonEntropy(r.Match)
    /\ r.RuleEntropyThreshold = out.rules[RuleOf(r)].Entropy
    /\ r.RuleEntropyThresholdMet <=> (r.Entropy >= r.RuleEntropyThreshold)
    /\ out.rules[RuleOf(r)].Entropy = 0 => r.RuleEntropyThresholdMet

\* C4 witness: a find call emitted a result whose entropy is exactly its
\* rule's positive threshold, flagged as met
C4_Witness ==
  \E r \in Emitted :
    r.RuleEntropyThreshold > 0 /\ r.Entropy = r.RuleEntropyThreshold
      /\ r.RuleEntropyThresholdMet

\* rule ids of the catalogs that begin with the prefix "generic."
IsGeneric(id) == id \in {"generic.1"}

Overlap(a, b) == a.Start < b.End /\ b.Start < a.End

\* C5: the matches emitted for one line never hold a match of a generic rule
\* that overlaps a match of a non-generic rule.
C5_NoGenericOverlap ==
  out.path = "line" =>
    \A a, b \in Emitted :
      IsGeneric(a.RuleID) /\ ~IsGeneric(b.RuleID) => ~Overlap(a, b)

\* ---------------------------------------------------------------- scanner
\* Scanner.MaxFileSize in bytes (100 MiB by default, scaled)
MaxFileSize == 12
\* the longest line bufio.Scanner accepts (10 MiB, scaled)
MaxLineLen == 4

\* the rules main compiles before it builds the Scanner
ScanCatalog ==
  << MkRule("generic.1", PatRun, <<1, 1>>, 0), MkRule("anthropic.1", PatKey, <<1, 1>>, 1000) >>

\* the engine main hands to the Scanner: SelectEngine picks Hyperscan for more
\* than one rule, and CompileRules has succeeded
ScanEngine ==
  [kind |-> "hyperscan",
   database |-> HsCompiled(NewHyperscanEngine, ScanCatalog).database,
   rules |-> HsCompiled(NewHyperscanEngine, ScanCatalog).rules,
   goRegexPatterns |-> HsCompiled(NewHyperscanEngine, ScanCatalog).goRegexPatterns]

\* size in bytes of a file made of these lines, each ended by a newline
RECURSIVE BytesOf(_)
BytesOf(lines) ==
  IF lines = <<>> THEN 0 ELSE Len(Head(lines)) + 1 + BytesOf(Tail(lines))

MkEntry(walkErr, isDir, size, binary, openFails, lines) ==
  [walkErr |-> walkErr, isDir |-> isDir, size |-> size, binary |-> binary,
   openFails |-> openFails, lines |-> lines]

LineHit  == <<"b", "a", "a">>
LineMiss == <<"b", "b">>
LineLong == <<"b", "b", "b", "b", "b">>

\* the kinds of entry a walked tree is made of
Entries ==
  { MkEntry(TRUE, FALSE, 0, FALSE, FALSE, <<>>),                \* walk reports an error
    MkEntry(FALSE, TRUE, 0, FALSE, FALSE, <<>>),                \* a directory
    MkEntry(FALSE, FALSE, 0, FALSE, FALSE, <<>>),               \* an empty file
    MkEntry(FALSE, FALSE, MaxFileSize + 1, FALSE, FALSE, <<>>), \* a file too large
    MkEntry(FALSE, FALSE, MaxFileSize, TRUE, FALSE, <<>>),      \* a binary file, of the largest size
    MkEntry(FALSE, FALSE, BytesOf(<<LineMiss, LineHit>>), FALSE, TRUE,
            <<LineMiss, LineHit>>),                             \* open fails in scanFile
    MkEntry(FALSE, FALSE, BytesOf(<<LineMiss, LineHit>>), FALSE, FALSE,
            <<LineMiss, LineHit>>),                             \* a text file
    MkEntry(FALSE, FALSE, BytesOf(<<LineHit, LineLong>>), FALSE, FALSE,
            <<LineHit, LineLong>>) }                            \* a line too long

\* isBinaryFile, by the file's kind
isBinaryFile(f) == f.binary

\* Engine.FindAllInLine through the PatternEngine interface: the result
\* lists the call may return
FindAllInLine(e, line) ==
  IF e.kind = "go" THEN {GoFindAllInLine(e, line)} ELSE HsLineResults(e, line)

\* the ScanResult literal of scanFile
ScanResult(filePath, lineNumber, match) ==
  [FilePath |-> filePath, LineNumber |-> lineNumber, Match |-> match.Match,
   Redacted |-> match.Redacted, RuleName |-> match.RuleName,
   RuleID |-> match.RuleID, Entropy |-> match.Entropy]

\* the scanner.Scan loop of scanFile from line k on: it ends at the end of the
\* file or at the first line longer than the buffer allows
RECURSIVE ScanLines(_, _, _, _)
ScanLines(e, f, filePath, k) ==
  IF k > Len(f.lines) \/ Len(f.lines[k]) > MaxLineLen THEN {<<>>}
  ELSE {[i \in 1..Len(ms) |-> ScanResult(filePath, k, ms[i])] \o rest :
          ms \in FindAllInLine(e, f.lines[k]),
          rest \in ScanLines(e, f, filePath, k + 1)}

\* scanner.Err() is non-nil: some line is longer than the buffer allows
ReadFails(f) == \E k \in 1..Len(f.lines) : Len(f.lines[k]) > MaxLineLen

\* scanFile that returns what it collected although the read failed
scanFileIgnoringErr(e, f, filePath) ==
  IF f.openFails THEN {[err |-> TRUE, results |-> <<>>]}
  ELSE {[err |-> FALSE, results |-> rs] : rs \in ScanLines(e, f, filePath, 1)}

\* Scanner.scanFile: the (results, err) pairs it may return
scanFile(e, f, filePath) ==
  IF f.openFails \/ ReadFails(f) THEN {[err |-> TRUE, results |-> <<>>]}
  ELSE {[err |-> FALSE, results |-> rs] : rs \in ScanLines(e, f, filePath, 1)}

Workers == 1..WorkerCount

\* the counters the worker's error path bumps, with the fall-through a missing
\* continue would give
ErrorPathFallsThrough == {"FilesSkipped", "FilesScanned"}

\* the counters the worker's error path bumps
ErrorPathCounts == {"FilesSkipped"}

\* wg.Wait() without waiting
WorkersExitedNoWait == TRUE

\* wg.Wait() returns: every worker has called wg.Done
WorkersExited == \A w \in Workers : wpc[w] = "exited"

\* <-done without waiting
CollectorSignalsNoWait == TRUE

\* <-done can proceed: the collector is at done <- true
CollectorSignals == cpc = "signal"

\* a worker's range over jobs that also ends when the caller asked to stop
RangeEndsOrCancelled == (jobs = <<>> /\ jobsClosed) \/ cancelRequested

\* a worker's range over jobs that ends as soon as the channel is closed
RangeEndsUndrained == jobsClosed

\* a worker's range over jobs ends: the channel is closed and drained
RangeEnds == jobs = <<>> /\ jobsClosed

\* atomic.StoreInt64 in place of the add
BumpStores(M, c, n) == [M EXCEPT ![c] = n]

\* atomic.AddInt64 on counter c for entry i, with its history
Bump(M, c, n) == [M EXCEPT ![c] = @ + n]
Count(C, i, which) == [C EXCEPT ![i][which] = @ + 1]

\* the Scanner main builds, ScanDirectory entered: channels made, workers and
\* collector started
ScanInitFrom(counts, before) ==
  /\ catalog = ScanCatalog
  /\ unit = <<>>
  /\ out = NoOut
  /\ engine = ScanEngine
  /\ PoolIdle
  /\ tree \in [1..MaxFiles -> Entries]
  /\ WorkerCount \in counts
  /\ mainpc = "walk"
  /\ walkPos = 1
  /\ jobs = <<>> /\ jobsClosed = FALSE
  /\ results = <<>> /\ resultsClosed = FALSE
  /\ wpc = [w \in Workers |-> "recv"]
  /\ wjob = [w \in Workers |-> 0]
  /\ wpend = [w \in Workers |-> <<>>]
  /\ cpc = "collect"
  /\ allResults = <<>> /\ ret = <<>>
  /\ Metrics = before
  /\ counted = [i \in 1..MaxFiles |-> [FilesScanned |-> 0, FilesSkipped |-> 0]]
  /\ sent = <<>>
  /\ panicked = FALSE
  /\ cancelRequested = FALSE
  /\ lateTakes = 0

\* &ScanMetrics{}: the counters of a new Scanner
NewMetrics ==
  [FilesScanned |-> 0, FilesSkipped |-> 0, TotalBytes |-> 0, MatchesFound |-> 0]

\* the first ScanDirectory of a new Scanner
ScanInitOf(counts) == ScanInitFrom(counts, NewMetrics)

\* the size test with the limit itself excluded
SizeSkipsAtLimit(size) == size >= MaxFileSize \/ size = 0

\* the walk callback's size tests: very large files and empty files are skipped
SizeSkips(size) == size > MaxFileSize \/ size = 0

\* a Scanner as main builds it: at least one worker
ScanInit == ScanInitOf(1..MaxWorkers)

\* a Scanner as NewScannerWithOptions builds it: workerCount is stored as given
ScanInitAnyCount == ScanInitOf(0..MaxWorkers)

\* one call of the filepath.Walk callback, for entry walkPos
WalkEntry ==
  /\ ~panicked /\ mainpc = "walk" /\ walkPos <= Len(tree)
  /\ LET f == tree[walkPos] IN
       IF f.walkErr \/ f.isDir
       THEN UNCHANGED <<jobs, Metrics, counted>>
       ELSE IF SizeSkips(f.size)
       THEN /\ Metrics' = Bump(Metrics, "FilesSkipped", 1)
            /\ counted' = Count(counted, walkPos, "FilesSkipped")
            /\ UNCHANGED jobs
       ELSE /\ Len(jobs) < JobsCap
            /\ jobs' = Append(jobs, walkPos)
            /\ UNCHANGED <<Metrics, counted>>
  /\ walkPos' = walkPos + 1
  /\ UNCHANGED <<engineVars, poolVars, tree, WorkerCount, mainpc, jobsClosed, results,
                 resultsClosed, wpc, wjob, wpend, cpc, allResults, ret, sent,
                 panicked, cancelRequested, lateTakes>>

\* filepath.Walk has returned: close(jobs)
CloseJobs ==
  /\ ~panicked /\ mainpc = "walk" /\ walkPos > Len(tree)
  /\ jobsClosed' = TRUE
  /\ mainpc' = "wait"
  /\ UNCHANGED <<engineVars, poolVars, tree, WorkerCount, walkPos, jobs, results,
                 resultsClosed, wpc, wjob, wpend, cpc, allResults, ret, Metrics,
                 counted, sent, panicked, cancelRequested, lateTakes>>

\* wg.Wait() returns, then close(results)
CloseResults ==
  /\ ~panicked /\ mainpc = "wait"
  /\ WorkersExited
  /\ resultsClosed' = TRUE
  /\ mainpc' = "waitDone"
  /\ UNCHANGED <<engineVars, poolVars, tree, WorkerCount, walkPos, jobs, jobsClosed,
                 results, wpc, wjob, wpend, cpc, allResults, ret, Metrics,
                 counted, sent, panicked, cancelRequested, lateTakes>>

\* <-done, then return allResults
ReturnResults ==
  /\ ~panicked /\ mainpc = "waitDone"
  /\ CollectorSignals
  /\ mainpc' = "returned"
  /\ ret' = allResults
  /\ cpc' = IF cpc = "signal" THEN "done" ELSE cpc
  /\ UNCHANGED <<engineVars, poolVars, tree, WorkerCount, walkPos, jobs, jobsClosed,
                 results, resultsClosed, wpc, wjob, wpend, allResults, Metrics,
                 counted, sent, panicked, cancelRequested, lateTakes>>

\* the collector receives one result and appends it
CollectResult ==
  /\ ~panicked /\ cpc = "collect" /\ results # <<>>
  /\ allResults' = Append(allResults, Head(results))
  /\ results' = Tail(results)
  /\ UNCHANGED <<engineVars, poolVars, tree, WorkerCount, mainpc, walkPos, jobs,
                 jobsClosed, resultsClosed, wpc, wjob, wpend, cpc, ret, Metrics,
                 counted, sent, panicked, cancelRequested, lateTakes>>

\* the collector's range over results ends: it goes on to done <- true
CollectorEnds ==
  /\ ~panicked /\ cpc = "collect" /\ results = <<>> /\ resultsClosed
  /\ cpc' = "signal"
  /\ UNCHANGED <<engineVars, poolVars, tree, WorkerCount, mainpc, walkPos, jobs,
                 jobsClosed, results, resultsClosed, wpc, wjob, wpend,
                 allResults, ret, Metrics, counted, sent, panicked,
                 cancelRequested, lateTakes>>

\* worker w receives a job from the jobs channel
WorkerTake(w) ==
  /\ ~panicked /\ wpc[w] = "recv" /\ jobs # <<>>
  /\ wjob' = [wjob EXCEPT ![w] = Head(jobs)]
  /\ jobs' = Tail(jobs)
  /\ wpc' = [wpc EXCEPT ![w] = "scan"]
  /\ lateTakes' = IF cancelRequested THEN lateTakes + 1 ELSE lateTakes
  /\ UNCHANGED <<engineVars, poolVars, tree, WorkerCount, mainpc, walkPos, jobsClosed,
                 results, resultsClosed, wpend, cpc, allResults, ret, Metrics,
                 counted, sent, panicked, cancelRequested>>

\* worker w finds the jobs channel closed and drained: wg.Done
WorkerExit(w) ==
  /\ ~panicked /\ wpc[w] = "recv"
  /\ RangeEnds
  /\ wpc' = [wpc EXCEPT ![w] = "exited"]
  /\ UNCHANGED <<engineVars, poolVars, tree, WorkerCount, mainpc, walkPos, jobs,
                 jobsClosed, results, resultsClosed, wjob, wpend, cpc,
                 allResults, ret, Metrics, counted, sent, panicked,
                 cancelRequested, lateTakes>>

\* worker w handles its job: the binary check, scanFile, the metrics
WorkerScan(w) ==
  /\ ~panicked /\ wpc[w] = "scan"
  /\ LET i == wjob[w]
         f == tree[i]
     IN  IF isBinaryFile(f)
         THEN /\ Metrics' = Bump(Metrics, "FilesSkipped", 1)
              /\ counted' = Count(counted, i, "FilesSkipped")
              /\ wpc' = [wpc EXCEPT ![w] = "recv"]
              /\ UNCHANGED wpend
         ELSE \E o \in scanFile(engine, f, i) :
                IF o.err
                THEN /\ Metrics' =
                          [c \in DOMAIN Metrics |->
                             IF c \in ErrorPathCounts THEN Metrics[c] + 1 ELSE Metrics[c]]
                     /\ counted' =
                          [counted EXCEPT ![i] =
                             [c \in DOMAIN counted[i] |->
                                IF c \in ErrorPathCounts THEN counted[i][c] + 1
                                ELSE counted[i][c]]]
                     /\ wpc' = [wpc EXCEPT ![w] = "recv"]
                     /\ UNCHANGED wpend
                ELSE /\ Metrics' =
                          Bump(Bump(Bump(Metrics, "FilesScanned", 1),
                                    "TotalBytes", f.size),
                               "MatchesFound", Len(o.results))
                     /\ counted' = Count(counted, i, "FilesScanned")
                     /\ wpend' = [wpend EXCEPT ![w] = o.results]
                     /\ wpc' = [wpc EXCEPT ![w] =
                                  IF o.results = <<>> THEN "recv" ELSE "send"]
  /\ UNCHANGED <<engineVars, poolVars, tree, WorkerCount, mainpc, walkPos, jobs,
                 jobsClosed, results, resultsClosed, wjob, cpc, allResults, ret,
                 sent, panicked, cancelRequested, lateTakes>>

\* worker w sends its next result; a send on a closed channel panics
WorkerSend(w) ==
  /\ ~panicked /\ wpc[w] = "send"
  /\ IF resultsClosed
     THEN /\ panicked' = TRUE
          /\ UNCHANGED <<results, sent, wpend, wpc>>
     ELSE /\ Len(results) < ResultsCap
          /\ results' = Append(results, Head(wpend[w]))
          /\ sent' = Append(sent, Head(wpend[w]))
          /\ wpend' = [wpend EXCEPT ![w] = Tail(@)]
          /\ wpc' = [wpc EXCEPT ![w] = IF Tail(wpend[w]) = <<>> THEN "recv" ELSE "send"]
          /\ UNCHANGED panicked
  /\ UNCHANGED <<engineVars, poolVars, tree, WorkerCount, mainpc, walkPos, jobs,
                 jobsClosed, resultsClosed, wjob, cpc, allResults, ret, Metrics,
                 counted, cancelRequested, lateTakes>>

\* the caller of ScanDirectory decides the scan should stop; ScanDirectory
\* takes no token or context through which it could be told
RequestCancel ==
  /\ ~panicked /\ mainpc # "returned" /\ ~cancelRequested
  /\ cancelRequested' = TRUE
  /\ UNCHANGED <<engineVars, poolVars, tree, WorkerCount, mainpc, walkPos, jobs,
                 jobsClosed, results, resultsClosed, wpc, wjob, wpend, cpc,
                 allResults, ret, Metrics, counted, sent, panicked, lateTakes>>

ScanNext ==
  \/ WalkEntry
  \/ CloseJobs
  \/ CloseResults
  \/ ReturnResults
  \/ CollectResult
  \/ CollectorEnds
  \/ \E w \in Workers : WorkerTake(w)
  \/ \E w \in Workers : WorkerExit(w)
  \/ \E w \in Workers : WorkerScan(w)
  \/ \E w \in Workers : WorkerSend(w)

SpecScan == ScanInit /\ [][ScanNext]_vars

ScanCancelNext == ScanNext \/ RequestCancel

SpecScanCancel == ScanInit /\ [][ScanCancelNext]_vars

\* ------------------------------------------------- claims about the scanner
\* the multiset of the elements of a sequence
BagOfSeq(q) ==
  [x \in {q[k] : k \in 1..Len(q)} |-> Cardinality({k \in 1..Len(q) : q[k] = x})]

\* the entries of q that belong to file i
OfFile(q, i) == SelectSeq(q, LAMBDA r : r.FilePath = i)

\* the walker enqueues entry i
Eligible(i) ==
  ~tree[i].walkErr /\ ~tree[i].isDir /\ 0 < tree[i].size /\ tree[i].size <= MaxFileSize

\* scanning entry i fails: it cannot be opened or a line is too long
Failing(i) ==
  Eligible(i) /\ ~tree[i].binary /\ (tree[i].openFails \/ ReadFails(tree[i]))

\* entry i is scanned to its end
Good(i) ==
  Eligible(i) /\ ~tree[i].binary /\ ~tree[i].openFails /\ ~ReadFails(tree[i])

\* the findings of file i, in one of the orders the engine may give them
FindingsOf(i) == CHOOSE rs \in ScanLines(engine, tree[i], i, 1) : TRUE

\* C6: the job queue is closed only after the walk has finished, the result
\* queue only after every worker has exited, and ScanDirectory returns only
\* after the collector has consumed the result queue to its end; so no worker
\* sends on a closed queue and every result sent is in the returned list.
C6_ShutdownOrder ==
  /\ jobsClosed => walkPos > Len(tree)
  /\ resultsClosed => \A w \in Workers : wpc[w] = "exited"
  /\ mainpc = "returned" => cpc = "done" /\ results = <<>> /\ resultsClosed
  /\ ~panicked
  /\ mainpc = "returned" => BagOfSeq(ret) = BagOfSeq(sent)

\* C6 witness: ScanDirectory returned after two workers sent more results than
\* the result queue holds
C6_Witness ==
  mainpc = "returned" /\ WorkerCount >= 2 /\ Len(sent) > ResultsCap + 1
    /\ Len(ret) = Len(sent)

\* C7: for a fixed tree and rule list the multiset of returned ScanResults is
\* the same under every interleaving and for every WorkerCount >= 1.
C7_Deterministic ==
  mainpc = "returned" =>
    \A i \in 1..Len(tree) :
      BagOfSeq(OfFile(ret, i)) =
        IF Good(i) THEN BagOfSeq(FindingsOf(i)) ELSE BagOfSeq(<<>>)

\* C7 witness: a returned list in which the results of two files interleave
C7_Witness ==
  /\ mainpc = "returned"
  /\ \E a, b, c \in 1..Len(ret) :
       a < b /\ b < c /\ ret[a].FilePath = ret[c].FilePath
         /\ ret[a].FilePath # ret[b].FilePath

\* C8: no file is counted both in FilesScanned and in FilesSkipped: every
\* entry bumps at most one of the two counters, once.
C8_ScannedXorSkipped ==
  /\ \A i \in 1..Len(tree) :
       counted[i].FilesScanned + counted[i].FilesSkipped <= 1
  /\ Metrics.FilesScanned =
       Cardinality({i \in 1..Len(tree) : counted[i].FilesScanned = 1})
  /\ Metrics.FilesSkipped =
       Cardinality({i \in 1..Len(tree) : counted[i].FilesSkipped = 1})

\* C8 witness: after a scan one file was counted scanned and another, whose
\* scan failed in the worker, was counted skipped
C8_Witness ==
  /\ mainpc = "returned"
  /\ \E i, j \in 1..Len(tree) :
       /\ counted[i].FilesScanned = 1
       /\ Failing(j) /\ counted[j].FilesSkipped = 1

\* C9: a file whose scan fails is counted skipped and not scanned, none of its
\* matches reach the result list, TotalBytes and MatchesFound do not change
\* for it, and the results of every other file are unaffected.
C9_FailedFileAbsorbed ==
  /\ \A i \in 1..Len(tree) :
       Failing(i) =>
         /\ counted[i].FilesScanned = 0
         /\ OfFile(sent, i) = <<>>
         /\ \A w \in Workers : OfFile(wpend[w], i) = <<>>
         /\ mainpc = "returned" =>
              counted[i].FilesSkipped = 1 /\ OfFile(ret, i) = <<>>
  /\ Metrics.TotalBytes =
       SumOver(1..Len(tree), [i \in 1..Len(tree) |->
                 IF counted[i].FilesScanned = 1 THEN tree[i].size ELSE 0])
  /\ Metrics.MatchesFound =
       SumOver(1..Len(tree), [i \in 1..Len(tree) |->
                 IF counted[i].FilesScanned = 1 /\ Good(i)
                 THEN Len(FindingsOf(i)) ELSE 0])
  /\ mainpc = "returned" =>
       \A j \in 1..Len(tree) :
         Good(j) => /\ counted[j].FilesScanned = 1
                    /\ BagOfSeq(OfFile(ret, j)) = BagOfSeq(FindingsOf(j))

\* C9 witness: one worker met a file with a match on its first line and a
\* too-long second line, then scanned the next file, whose findings were
\* returned
C9_Witness ==
  /\ mainpc = "returned" /\ WorkerCount = 1 /\ Len(tree) >= 2
  /\ Failing(1) /\ ~tree[1].openFails
  /\ ScanLines(engine, tree[1], 1, 1) # {<<>>}
  /\ counted[1].FilesSkipped = 1
  /\ Good(2) /\ ret = FindingsOf(2) /\ ret # <<>>

MaxScratch == 2

\* the goroutines that call the find methods of one compiled HyperscanEngine
Callers == 1..MaxWorkers

\* a caller outside any find call
NoCall == [pc |-> "idle", path |-> "none", scratch |-> 0, err |-> FALSE]

\* a Get that leaves the scratch in the pool
PoolAfterGetKeeps(pool, s) == pool

\* sync.Pool.Get removes the item it returns
PoolAfterGet(pool, s) == pool \ {s}

\* a compiled HyperscanEngine shared by the callers, its pool still empty
PoolInit ==
  /\ catalog = ScanCatalog
  /\ unit \in {LineHit, LineMiss}
  /\ engine = ScanEngine
  /\ out = NoOut
  /\ ScanIdle
  /\ closed = FALSE
  /\ scratchPool = {}
  /\ scratchMade = 0
  /\ call = [c \in Callers |-> NoCall]

\* FindAllInLine / FindAllInContent entered: the database is not nil
FindEnter(c) ==
  /\ call[c].pc = "idle"
  /\ engine.database.state # "nil"
  /\ \E path \in {"line", "content"} :
       call' = [call EXCEPT ![c] = [NoCall EXCEPT !.pc = "get", !.path = path]]
  /\ UNCHANGED <<engineVars, scanVars, closed, scratchPool, scratchMade>>

\* e.scratchPool.Get(): an item at rest, or the result of New; a nil result
\* (NewManagedScratch failed) makes the call return nil
PoolGet(c) ==
  /\ call[c].pc = "get"
  /\ \/ \E s \in scratchPool :
          /\ scratchPool' = PoolAfterGet(scratchPool, s)
          /\ call' = [call EXCEPT ![c].pc = "scan", ![c].scratch = s]
          /\ UNCHANGED scratchMade
     \/ /\ scratchMade < MaxScratch
        /\ scratchMade' = scratchMade + 1
        /\ call' = [call EXCEPT ![c].pc = "scan", ![c].scratch = scratchMade + 1]
        /\ UNCHANGED scratchPool
     \/ /\ call' = [call EXCEPT ![c] = NoCall]
        /\ UNCHANGED <<scratchPool, scratchMade>>
  /\ UNCHANGED <<engineVars, scanVars, closed>>

\* e.database.Scan(..., scratch, callback) returns, with or without an error
ScanReturns(c) ==
  /\ call[c].pc = "scan"
  /\ \E err \in BOOLEAN : call' = [call EXCEPT ![c].pc = "defer", ![c].err = err]
  /\ UNCHANGED <<engineVars, scanVars, closed, scratchPool, scratchMade>>

\* the find call returns: the deferred e.scratchPool.Put(scratch) runs, then
\* nil (scan error) or the results reach the caller
FindReturn(c) ==
  /\ call[c].pc = "defer"
  /\ scratchPool' = scratchPool \cup {call[c].scratch}
  /\ \E rs \in (IF call[c].path = "line" THEN HsLineResults(engine, unit)
                                          ELSE HsContentResults(engine, unit)) :
       out' = [engine |-> "hyperscan", path |-> call[c].path, panic |-> FALSE,
               results |-> IF call[c].err THEN <<>> ELSE rs, rules |-> engine.rules]
  /\ call' = [call EXCEPT ![c] = NoCall]
  /\ UNCHANGED <<catalog, unit, engine, scanVars, closed, scratchMade>>

\* sync.Pool drops an item at rest (garbage collection)
PoolDrop ==
  /\ \E s \in scratchPool : scratchPool' = scratchPool \ {s}
  /\ UNCHANGED <<engineVars, scanVars, closed, scratchMade, call>>

PoolNext ==
  \/ \E c \in Callers : FindEnter(c)
  \/ \E c \in Callers : PoolGet(c)
  \/ \E c \in Callers : ScanReturns(c)
  \/ \E c \in Callers : FindReturn(c)
  \/ PoolDrop

SpecPool == PoolInit /\ [][PoolNext]_vars

\* the caller is past Get and before its deferred Put
Holding(c) == call[c].pc \in {"scan", "defer"}

\* C11: with any number of callers in find calls on one compiled automaton
\* matcher, no scratch is held by two calls at once (nor held while at rest
\* in the pool), a call that got a scratch keeps that one scratch until it
\* returns, and on return (scan error or not) the scratch is put back.
C11_ScratchExclusive ==
  /\ [](\A c \in Callers :
          Holding(c) =>
            /\ call[c].scratch \in 1..scratchMade
            /\ call[c].scratch \notin scratchPool
            /\ \A d \in Callers \ {c} : Holding(d) => call[d].scratch # call[c].scratch)
  /\ [][\A c \in Callers :
          Holding(c) =>
            IF call'[c].pc \in {"scan", "defer"}
            THEN call'[c].scratch = call[c].scratch
            ELSE call[c].scratch \in scratchPool']_vars

\* two calls in flight at once, one of them leaving through a scan error
C11_Witness ==
  \E c, d \in Callers :
    /\ c # d
    /\ call[c] # NoCall /\ call[c].pc = "defer" /\ call[c].err
    /\ call[d] # NoCall /\ call[d].pc = "scan"
    /\ scratchMade = MaxScratch

\* ------------------------------------------------------ engine life cycle
\* `[unclosed` and `(unclosed`: patterns neither backend compiles
PatBad == [pre |-> <<"[">>, cls |-> {}, min |-> 0, cap |-> FALSE,
           goOK |-> FALSE, hsOK |-> FALSE, nil |-> FALSE]
PatBad2 == [pre |-> <<"(">>, cls |-> {}, min |-> 0, cap |-> FALSE,
            goOK |-> FALSE, hsOK |-> FALSE, nil |-> FALSE]

\* rule lists for CompileRules: all patterns compile; the first does not;
\* two do not, the first of them at index 2; the backends disagree on the
\* first offender
CloseCatalogs ==
  { << MkRule("generic.1", PatRun, <<>>, 0), MkRule("anthropic.1", PatKey, <<1, 1>>, 0) >>,
    << MkRule("test.invalid", PatBad, <<>>, 0), MkRule("generic.1", PatRun, <<>>, 0) >>,
    << MkRule("generic.1", PatRun, <<>>, 0), MkRule("test.invalid", PatBad, <<>>, 0),
       MkRule("test.invalid2", PatBad2, <<>>, 0) >>,
    << MkRule("cli.pattern.1", PatHsOnly, <<>>, 0), MkRule("test.invalid", PatBad, <<>>, 0) >> }

\* the lines handed to the find calls around Close
CloseLines == { <<>>, <<"b", "a", "a">>, <<"a", "b", "a">>, <<"b", "*", "*">> }

CloseInit ==
  /\ catalog \in CloseCatalogs
  /\ unit \in CloseLines
  /\ engine \in {NewHyperscanEngine, NewGoRegexEngine}
  /\ out = NoOut
  /\ ScanIdle
  /\ PoolIdle

CloseNext ==
  \/ EngineNext
  \/ HsClose
  \/ GoClose

SpecClose == CloseInit /\ [][CloseNext]_vars

\* C12: Close is idempotent: however CompileRules and Close calls are
\* sequenced, a database is released at most once, and a second or later Close
\* returns no error and does not fault.
C12_CloseReleasesOnce ==
  /\ engine.kind = "hyperscan" => engine.database.frees <= 1
  /\ out.path = "close" => ~out.err /\ ~out.panic

\* C13: once Close has been called on a compiled matcher of either kind, a
\* later FindAllInLine or FindAllInContent returns no results and does not touch
\* the released database.
C13_EmptyAfterClose ==
  (closed /\ out.path \in {"line", "content"}) =>
    /\ out.results = <<>>
    /\ ~out.panic
    /\ engine.kind = "hyperscan" => ~UseAfterFree(engine)

\* the backend whose compiler an engine uses
BackendOf(kind) == IF kind = "go" THEN "goOK" ELSE "hsOK"

\* C14: CompileRules returns no error when every pattern compiles, and
\* otherwise an error that carries the rule id and the pattern of the
\* lowest-index rule whose pattern does not compile.
C14_ErrorNamesFirstOffender ==
  out.path = "compile" =>
    LET bad == FirstBad(catalog, BackendOf(out.engine))
    IN  IF bad = 0 THEN ~out.err.failed
        ELSE /\ out.err.failed
             /\ out.err.rule = catalog[bad].ID
             /\ out.err.withPattern
             /\ out.err.pattern = catalog[bad].Pattern

\* ---------------------------------------------- the two engines compared
\* the rule ids a result list carries
IDsOf(rs) == {rs[i].RuleID : i \in 1..Len(rs)}

\* what FindAllInLine of the other engine, compiled from the same rule list,
\* may return for the same line
OtherEngineLine(kind, rules, line) ==
  IF kind = "go" THEN HsLineResults(HsCompiled(NewHyperscanEngine, rules), line)
  ELSE {GoFindAllInLine(GoCompiled(rules), line)}

\* C15: for a rule list that compiles in both engines and any line,
\* FindAllInLine of the Hyperscan engine and of the Go regex engine return
\* the same set of rule ids and the same number of results, also when one
\* rule matches at several places of the line.
C15_SameIdsAndCount ==
  (/\ out.path = "line"
   /\ Len(out.rules) > 0
   /\ FirstBad(catalog, "goOK") = 0
   /\ FirstBad(catalog, "hsOK") = 0) =>
    \A rs \in OtherEngineLine(out.engine, catalog, unit) :
      /\ IDsOf(rs) = IDsOf(out.results)
      /\ Len(rs) = Len(out.results)

\* ------------------------------------------------------- engine selection
\* the probe rule of IsHyperscanAvailable: the pattern `test`, which Hyperscan
\* compiles iff the backend is usable on this machine
ProbeRule(usable) ==
  MkRule("test.1",
         [pre |-> <<"t", "e", "s", "t">>, cls |-> {}, min |-> 0, cap |-> FALSE,
          goOK |-> TRUE, hsOK |-> usable, nil |-> FALSE],
         <<>>, 1000)

\* IsHyperscanAvailable: compile the probe rule with a fresh HyperscanEngine
IsHyperscanAvailable(usable) ==
  ~HsCompiled(NewHyperscanEngine, <<ProbeRule(usable)>>).err.failed

\* SelectEngine with the "auto" branch taken for one rule as well
SelectEngineFromOneRule(rules, enginePreference, usable) ==
  IF enginePreference = "go" THEN [ret |-> "go", probed |-> FALSE]
  ELSE IF enginePreference = "hyperscan" THEN [ret |-> "hyperscan", probed |-> FALSE]
  ELSE IF enginePreference = "auto"
  THEN IF Len(rules) >= 1
       THEN [ret |-> IF IsHyperscanAvailable(usable) THEN "hyperscan" ELSE "go",
             probed |-> TRUE]
       ELSE [ret |-> "go", probed |-> FALSE]
  ELSE [ret |-> "go", probed |-> FALSE]

\* SelectEngine(rules, enginePreference): the engine name it returns, and
\* whether it called IsHyperscanAvailable (&& evaluates it only for more than
\* one rule)
SelectEngine(rules, enginePreference, usable) ==
  IF enginePreference = "go" THEN [ret |-> "go", probed |-> FALSE]
  ELSE IF enginePreference = "hyperscan" THEN [ret |-> "hyperscan", probed |-> FALSE]
  ELSE IF enginePreference = "auto"
  THEN IF Len(rules) > 1
       THEN [ret |-> IF IsHyperscanAvailable(usable) THEN "hyperscan" ELSE "go",
             probed |-> TRUE]
       ELSE [ret |-> "go", probed |-> FALSE]
  ELSE [ret |-> "go", probed |-> FALSE]

\* the values of the -engine flag
EnginePreferences == {"go", "hyperscan", "auto", "", "vectorscan"}

\* the caller has loaded its rules; unit holds the preference and whether the
\* Hyperscan backend is usable
SelectInit ==
  /\ catalog \in Catalogs \cup {<<>>}
  /\ unit \in [enginePreference : EnginePreferences, usable : BOOLEAN]
  /\ engine = NewGoRegexEngine
  /\ out = NoOut
  /\ ScanIdle
  /\ PoolIdle

\* selectedEngine := SelectEngine(rules, *engineFlag)
SelectEngineCall ==
  /\ out = NoOut
  /\ out' = [engine |-> "none", path |-> "select", panic |-> FALSE,
             results |-> <<>>, rules |-> <<>>,
             ret |-> SelectEngine(catalog, unit.enginePreference, unit.usable).ret,
             probed |-> SelectEngine(catalog, unit.enginePreference, unit.usable).probed]
  /\ UNCHANGED <<catalog, unit, engine, scanVars, poolVars>>

SelectNext == SelectEngineCall

SpecSelect == SelectInit /\ [][SelectNext]_vars

\* C16: SelectEngine returns "go" for the preference "go"; "hyperscan" for
\* the preference "hyperscan", without probing; and for "auto" it returns
\* "hyperscan" exactly when there is more than one rule and the probe
\* succeeds, "go" otherwise.
C16_SelectEngine ==
  out.path = "select" =>
    /\ unit.enginePreference = "go" => out.ret = "go"
    /\ unit.enginePreference = "hyperscan" => out.ret = "hyperscan" /\ ~out.probed
    /\ unit.enginePreference = "auto" =>
         (out.ret = "hyperscan" <=> (Len(catalog) > 1 /\ unit.usable))
    /\ unit.enginePreference = "auto" => out.ret \in {"hyperscan", "go"}

\* "auto" with a single rule and a usable backend selects the Go engine
C16_Witness ==
  /\ out.path = "select"
  /\ unit.enginePreference = "auto"
  /\ Len(catalog) = 1
  /\ unit.usable
  /\ out.ret = "go"

\* ------------------------------------------------------------- the walker
\* C17: the walk callback enqueues a regular file exactly when
\* 0 < size <= MaxFileSize; an empty or too large file is never enqueued or
\* handed to a worker and bumps FilesSkipped once; an entry whose walk
\* reports an error is neither enqueued nor counted, and the walk goes on
\* to the remaining entries.
C17_WalkerFilter ==
  /\ [](/\ \A k \in 1..Len(jobs) : Eligible(jobs[k])
        /\ \A w \in Workers : wjob[w] # 0 => Eligible(wjob[w])
        /\ mainpc = "returned" =>
             /\ walkPos > Len(tree)
             /\ \A i \in 1..Len(tree) :
                  ~Eligible(i) =>
                    /\ counted[i].FilesScanned = 0
                    /\ counted[i].FilesSkipped =
                         IF tree[i].walkErr \/ tree[i].isDir THEN 0 ELSE 1)
  /\ [][walkPos' # walkPos =>
          /\ walkPos' = walkPos + 1
          /\ IF Eligible(walkPos)
             THEN jobs' = Append(jobs, walkPos) /\ Metrics' = Metrics
             ELSE jobs' = jobs
          /\ (tree[walkPos].walkErr \/ tree[walkPos].isDir) => Metrics' = Metrics
          /\ (~Eligible(walkPos) /\ ~tree[walkPos].walkErr /\ ~tree[walkPos].isDir) =>
               Metrics' = [Metrics EXCEPT !.FilesSkipped = @ + 1]]_vars

\* the walk went on after an entry it could not access and enqueued a file of
\* exactly MaxFileSize bytes, which a worker then received
C17_Witness ==
  /\ mainpc = "returned"
  /\ tree[1].walkErr
  /\ tree[2].size = MaxFileSize
  /\ \E w \in Workers : wjob[w] = 2

\* ------------------------------------------------------ binary detection
\* the longest file content drawn
MaxBytes == 5
\* the size of the buffer isBinaryFile reads into (512, scaled)
HeadSize == 4

\* byte values: NUL, tab, a control character, space, DEL
Bytes == {0, 9, 31, 32, 127}

\* strings.ToLower on the extensions drawn
ToLower(ext) == IF ext = ".PNG" THEN ".png" ELSE ext

binaryExts ==
  {".a", ".avi", ".bin", ".bmp", ".class", ".dll", ".doc", ".docx", ".dylib",
   ".exe", ".gif", ".gz", ".img", ".iso", ".jar", ".jpg", ".jpeg", ".lib",
   ".mov", ".mp3", ".mp4", ".o", ".obj", ".pdf", ".png", ".rar", ".so", ".tar",
   ".war", ".xls", ".xlsx", ".zip"}

\* the byte counts as non-printable in the heuristic: below 32 and not tab,
\* newline or carriage return
NonPrintable(b) == b < 32 /\ b # 9 /\ b # 10 /\ b # 13

\* isBinaryFile(filePath) for a file with this extension and content; access
\* says whether os.Open and file.Read succeed
isBinaryFileOf(ext, access, content) ==
  LET n            == Min(HeadSize, Len(content))
      nonPrintable == Cardinality({i \in 1..n : NonPrintable(content[i])})
  IN  IF ToLower(ext) \in binaryExts THEN TRUE
      ELSE IF access = "openFails" THEN TRUE
      ELSE IF access = "readFails" THEN TRUE
      ELSE IF \E i \in 1..n : content[i] = 0 THEN TRUE
      ELSE IF n = 0 THEN FALSE     \* 0/0 is NaN, and NaN > 0.30 is false
      ELSE 10 * nonPrintable > 3 * n

\* the files isBinaryFile is asked about
BinaryFiles ==
  [ext : {".txt", ".PNG", ".png"}, access : {"ok", "openFails", "readFails"},
   content : UNION {[1..k -> Bytes] : k \in 0..MaxBytes}]

BinaryInit ==
  /\ catalog = <<>>
  /\ unit \in BinaryFiles
  /\ engine = NewGoRegexEngine
  /\ out = NoOut
  /\ ScanIdle
  /\ PoolIdle

\* the worker asks isBinaryFile(job.Path)
IsBinaryFileCall ==
  /\ out = NoOut
  /\ out' = [engine |-> "none", path |-> "binary", panic |-> FALSE,
             results |-> <<>>, rules |-> <<>>,
             ret |-> isBinaryFileOf(unit.ext, unit.access, unit.content)]
  /\ UNCHANGED <<catalog, unit, engine, scanVars, poolVars>>

BinaryNext == IsBinaryFileCall

SpecBinaryFile == BinaryInit /\ [][BinaryNext]_vars

\* a byte outside 0x20..0x7E that is not tab, LF or CR
OutsidePrintableRange(b) == (b < 32 \/ b > 126) /\ b \notin {9, 10, 13}

\* C18: isBinaryFile returns true exactly when the lowercased extension is
\* in the deny-list, or the file cannot be opened or read, or the first
\* up-to-512 bytes hold a 0x00, or strictly more than 30% of them lie outside
\* 0x20..0x7E and are not tab, LF or CR.
C18_BinaryExactly ==
  out.path = "binary" =>
    LET n    == Min(HeadSize, Len(unit.content))
        head == SubSeq(unit.content, 1, n)
    IN  out.ret <=>
          \/ ToLower(unit.ext) \in binaryExts
          \/ unit.access # "ok"
          \/ \E i \in 1..n : head[i] = 0
          \/ 10 * Cardinality({i \in 1..n : OutsidePrintableRange(head[i])}) > 3 * n

\* --------------------------------------------------- NormalizeExtendedRegex
\* the longest pattern body drawn
MaxPat == 4

\* the literal `(?x)`
ExtendedFlag == <<"(", "?", "x", ")">>

\* strings.ReplaceAll(pattern, "(?x)", ""): non-overlapping occurrences are
\* removed from left to right
RECURSIVE RemoveExtendedFlag(_)
RemoveExtendedFlag(pattern) ==
  IF Len(pattern) < Len(ExtendedFlag) THEN pattern
  ELSE IF SubSeq(pattern, 1, Len(ExtendedFlag)) = ExtendedFlag
  THEN RemoveExtendedFlag(SubSeq(pattern, Len(ExtendedFlag) + 1, Len(pattern)))
  ELSE <<Head(pattern)>> \o RemoveExtendedFlag(Tail(pattern))

\* unicode.IsSpace on the characters drawn
IsSpace(r) == r \in {" ", "\n", "\r", "\t"}

\* the loop with an escaped bracket changing the character-class state
RECURSIVE NormalizeLoopEscapedBrackets(_, _, _, _)
NormalizeLoopEscapedBrackets(pattern, i, inCharClass, inEscape) ==
  IF i > Len(pattern) THEN <<>>
  ELSE LET r == pattern[i] IN
    IF r = "\\" /\ ~inEscape
    THEN <<r>> \o NormalizeLoopEscapedBrackets(pattern, i + 1, inCharClass, TRUE)
    ELSE IF r = "[" /\ ~inCharClass
    THEN <<r>> \o NormalizeLoopEscapedBrackets(pattern, i + 1, TRUE, FALSE)
    ELSE IF r = "]" /\ inCharClass
    THEN <<r>> \o NormalizeLoopEscapedBrackets(pattern, i + 1, FALSE, FALSE)
    ELSE IF inEscape \/ inCharClass
    THEN <<r>> \o NormalizeLoopEscapedBrackets(pattern, i + 1, inCharClass, FALSE)
    ELSE IF r = "#" \/ IsSpace(r)
    THEN NormalizeLoopEscapedBrackets(pattern, i + 1, inCharClass, FALSE)
    ELSE <<r>> \o NormalizeLoopEscapedBrackets(pattern, i + 1, inCharClass, FALSE)

\* the loop over the runes of the pattern, from rune i on: what it writes to
\* result.  The inner loop of the comment case only advances its own index
\* j, so the case drops the `#` and the runes after it are handled as usual.
RECURSIVE NormalizeLoop(_, _, _, _)
NormalizeLoop(pattern, i, inCharClass, inEscape) ==
  IF i > Len(pattern) THEN <<>>
  ELSE LET r == pattern[i] IN
    IF inEscape THEN <<r>> \o NormalizeLoop(pattern, i + 1, inCharClass, FALSE)
    ELSE IF r = "\\" THEN <<r>> \o NormalizeLoop(pattern, i + 1, inCharClass, TRUE)
    ELSE IF r = "[" /\ ~inCharClass THEN <<r>> \o NormalizeLoop(pattern, i + 1, TRUE, FALSE)
    ELSE IF r = "]" /\ inCharClass THEN <<r>> \o NormalizeLoop(pattern, i + 1, FALSE, FALSE)
    ELSE IF inCharClass THEN <<r>> \o NormalizeLoop(pattern, i + 1, inCharClass, FALSE)
    ELSE IF r = "#" THEN NormalizeLoop(pattern, i + 1, inCharClass, FALSE)
    ELSE IF IsSpace(r) THEN NormalizeLoop(pattern, i + 1, inCharClass, FALSE)
    ELSE <<r>> \o NormalizeLoop(pattern, i + 1, inCharClass, FALSE)

\* NormalizeExtendedRegex without the test for `(?x)`
NormalizeUnconditionally(pattern) ==
  NormalizeLoop(RemoveExtendedFlag(pattern), 1, FALSE, FALSE)

\* NormalizeExtendedRegex(pattern)
NormalizeExtendedRegex(pattern) ==
  IF ~Contains(pattern, ExtendedFlag) THEN pattern
  ELSE NormalizeLoop(RemoveExtendedFlag(pattern), 1, FALSE, FALSE)

\* what a pattern is put together from: a leading or trailing flag (or a
\* near miss of it) and a body of spaces, newlines, comments, classes,
\* escapes and literals
PatternFlags == { <<>>, ExtendedFlag, <<"(", "?", "x">>, <<"(", "?", "i", ")">> }
BodyChars == {" ", "\n", "#", "[", "]", "\\", "a"}
PatternBodies == UNION {[1..k -> BodyChars] : k \in 0..MaxPat}
RulePatterns ==
  {f \o b : f \in PatternFlags, b \in PatternBodies}
    \cup {b \o f : f \in PatternFlags, b \in PatternBodies}

NormalizeInit ==
  /\ catalog = <<>>
  /\ unit \in RulePatterns
  /\ engine = NewGoRegexEngine
  /\ out = NoOut
  /\ ScanIdle
  /\ PoolIdle

\* pattern := NormalizeExtendedRegex(rule.Pattern), as CompileRules calls it
NormalizeCall ==
  /\ out = NoOut
  /\ out' = [engine |-> "none", path |-> "normalize", panic |-> FALSE,
             results |-> <<>>, rules |-> <<>>, ret |-> NormalizeExtendedRegex(unit)]
  /\ UNCHANGED <<catalog, unit, engine, scanVars, poolVars>>

NormalizeNext == NormalizeCall

SpecNormalize == NormalizeInit /\ [][NormalizeNext]_vars

\* C19: a pattern that does not contain the literal `(?x)` is returned
\* unchanged, whitespace, `#` and character classes included.
C19_IdentityWithoutFlag ==
  (out.path = "normalize" /\ ~Contains(unit, ExtendedFlag)) => out.ret = unit

\* a pattern without the flag, but with a near miss of it, a space, a
\* comment sign and a class, came back as it was
C19_Witness ==
  /\ out.path = "normalize"
  /\ ~Contains(unit, ExtendedFlag)
  /\ Contains(unit, <<"(", "?", "x">>)
  /\ Contains(unit, <<" ">>) /\ Contains(unit, <<"#">>) /\ Contains(unit, <<"[">>)
  /\ out.ret = unit

\* the normal form the extended syntax asks for: outside classes and escapes
\* whitespace is dropped, and a `#` is dropped with everything up to the next
\* line terminator
RECURSIVE StripExtended(_, _, _, _, _)
StripExtended(pattern, i, inCharClass, inEscape, inComment) ==
  IF i > Len(pattern) THEN <<>>
  ELSE LET r == pattern[i] IN
    IF inComment
    THEN StripExtended(pattern, i + 1, FALSE, FALSE, r \notin {"\n", "\r"})
    ELSE IF inEscape THEN <<r>> \o StripExtended(pattern, i + 1, inCharClass, FALSE, FALSE)
    ELSE IF r = "\\" THEN <<r>> \o StripExtended(pattern, i + 1, inCharClass, TRUE, FALSE)
    ELSE IF r = "[" /\ ~inCharClass THEN <<r>> \o StripExtended(pattern, i + 1, TRUE, FALSE, FALSE)
    ELSE IF r = "]" /\ inCharClass THEN <<r>> \o StripExtended(pattern, i + 1, FALSE, FALSE, FALSE)
    ELSE IF inCharClass THEN <<r>> \o StripExtended(pattern, i + 1, TRUE, FALSE, FALSE)
    ELSE IF r = "#" THEN StripExtended(pattern, i + 1, FALSE, FALSE, TRUE)
    ELSE IF IsSpace(r) THEN StripExtended(pattern, i + 1, FALSE, FALSE, FALSE)
    ELSE <<r>> \o StripExtended(pattern, i + 1, FALSE, FALSE, FALSE)

\* C20: for a pattern containing `(?x)` the result is the pattern without the
\* flag, without the whitespace outside classes and escapes, and without any
\* comment: each `#` outside classes and escapes is removed together with
\* every character up to the next line terminator.
C20_CommentsRemoved ==
  (out.path = "normalize" /\ Contains(unit, ExtendedFlag)) =>
    out.ret = StripExtended(RemoveExtendedFlag(unit), 1, FALSE, FALSE, FALSE)

\* the character at position i directly follows an unescaped backslash
RECURSIVE EscapedAt(_, _)
EscapedAt(pattern, i) ==
  i > 1 /\ pattern[i - 1] = "\\" /\ ~EscapedAt(pattern, i - 1)

\* position i lies after an unescaped `[` that no unescaped `]` has closed
RECURSIVE InClassAt(_, _)
InClassAt(pattern, i) ==
  IF i = 1 THEN FALSE
  ELSE IF EscapedAt(pattern, i - 1) THEN InClassAt(pattern, i - 1)
  ELSE IF pattern[i - 1] = "[" /\ ~InClassAt(pattern, i - 1) THEN TRUE
  ELSE IF pattern[i - 1] = "]" /\ InClassAt(pattern, i - 1) THEN FALSE
  ELSE InClassAt(pattern, i - 1)

\* the characters of the pattern that are copied: every escaped character and
\* every character inside a class; of the others, all but `#` and whitespace
RECURSIVE CopiedFrom(_, _)
CopiedFrom(pattern, i) ==
  IF i > Len(pattern) THEN <<>>
  ELSE (IF \/ EscapedAt(pattern, i)
           \/ InClassAt(pattern, i)
           \/ (pattern[i] # "#" /\ ~IsSpace(pattern[i]))
        THEN <<pattern[i]>> ELSE <<>>) \o CopiedFrom(pattern, i + 1)

\* C21: in the walk over a pattern with `(?x)`, the character after a
\* backslash is copied as it is and leaves the character-class state alone (an
\* escaped `[` opens no class, an escaped `]` closes none), and every
\* character between an unescaped `[` and the next unescaped `]` is copied as
\* it is, whitespace and `#` included.
C21_EscapesAndClassesVerbatim ==
  (out.path = "normalize" /\ Contains(unit, ExtendedFlag)) =>
    out.ret = CopiedFrom(RemoveExtendedFlag(unit), 1)

\* inside a class an escaped `]` did not close the class: the space after it
\* was kept
C21_Witness ==
  /\ out.path = "normalize"
  /\ Contains(unit, ExtendedFlag)
  /\ LET p == RemoveExtendedFlag(unit) IN
       /\ \E i \in 2..Len(p) - 1 :
            /\ p[i] = "]" /\ EscapedAt(p, i) /\ InClassAt(p, i)
            /\ p[i + 1] = " "
       /\ out.ret = p

\* ---------------------------------------------------- redaction offsets
\* the redact lists a rule file may carry: absent, one element, pairs with
\* zero, negative and too large values, three elements
RedactLists ==
  { <<>>, <<4>>, <<0>>, <<0, 0>>, <<2, 0>>, <<-1, 2>>, <<1, 1>>, <<9, 9>>, <<1, 1, 7>> }

\* one rule `[a*]+` per redact list
RedactCatalogs == { << MkRule("test.redacted", PatRun, R, 0) >> : R \in RedactLists }

\* lines that are one match of the rule, or empty
RedactLines ==
  { Repeat("a", n1) \o Repeat("*", n2) \o Repeat("a", n3) :
      <<n1, n2, n3>> \in (0..MaxRun) \X (0..MaxRun) \X (0..MaxRun) }

RedactInit ==
  /\ catalog \in RedactCatalogs
  /\ unit \in RedactLines
  /\ engine \in {NewHyperscanEngine, NewGoRegexEngine}
  /\ out = NoOut
  /\ ScanIdle
  /\ PoolIdle

SpecRedact == RedactInit /\ [][EngineNext]_vars

\* C22: whatever the length and the values of the rule's redact list and
\* whatever the length of the match, the redaction never indexes outside the
\* list or the match, and the match is emitted as exactly one result (with
\* offsets too large for the match, the offsets are not used).
C22_RedactionNeverFaults ==
  (out.path \in {"line", "content"} /\ Len(out.rules) > 0) =>
    /\ ~out.panic
    /\ Len(unit) > 0 => Len(out.results) = 1

\* C23: when the rule's offsets are too large for the match (prefix + suffix
\* >= length of the match), the Redacted text FindAllInLine emits does not
\* contain the five-asterisk mask.
C23_NoMaskWhenOffsetsTooLarge ==
  out.path = "line" =>
    \A r \in Emitted :
      LET R == out.rules[RuleOf(r)].Redact
      IN  (Len(R) = 2 /\ R[1] > 0 /\ R[2] > 0 /\ R[1] + R[2] >= Len(r.Match)) =>
            ~Contains(r.Redacted, <<"*", "*", "*", "*", "*">>)

\* ------------------------------------------------------- span refinement
\* the results of a FindAllInLine call on a compiled Hyperscan engine
HsLineOut == out.engine = "hyperscan" /\ out.path = "line" /\ ~out.panic

\* the span Hyperscan reports for rule k on the line: (0, first end offset)
ReportedSpan(k) == <<0, HsFirstEnd(engine.database.patterns[k], unit)>>

\* the span of text, located by its last occurrence in the line
LastSpanOf(text) == <<LastIndex(unit, text), LastIndex(unit, text) + Len(text)>>

\* every rule Hyperscan reports on the line is emitted
AllReportedEmitted ==
  Len(out.results) =
    Cardinality({k \in 1..Len(engine.database.patterns) :
                   HsFirstEnd(engine.database.patterns[k], unit) >= 0})

\* C24 as stated: the reported bounds are kept when the refiner regex is
\* absent, does not match the line, or has no capture groups; otherwise the
\* span is that of the last capture group of the first match, located by its
\* last occurrence in the line; the match is emitted in every case.
C24_NoGroupsNoRefinement ==
  HsLineOut =>
    /\ AllReportedEmitted
    /\ \A r \in Emitted :
         LET k  == RuleOf(r)
             re == engine.goRegexPatterns[k]
             cg == IF re.nil THEN <<>> ELSE FindStringSubmatch(re, unit)
         IN  <<r.Start, r.End>> =
               IF re.nil \/ Len(cg) = 0 \/ Len(cg) = 1 THEN ReportedSpan(k)
               ELSE LastSpanOf(cg[Len(cg)])

\* C24 amended: the reported bounds are kept only when the refiner regex is
\* absent or does not match the line; otherwise the span is that of the last
\* capture group of the first match -- of the whole first match when the regex
\* has no capture groups -- located by its last occurrence in the line; the
\* match is emitted in every case.
C24_RefinementSpan ==
  HsLineOut =>
    /\ AllReportedEmitted
    /\ \A r \in Emitted :
         LET k    == RuleOf(r)
             re   == engine.goRegexPatterns[k]
             cg   == IF re.nil THEN <<>> ELSE FindStringSubmatch(re, unit)
             text == IF Len(cg) = 1 THEN cg[1] ELSE cg[Len(cg)]
         IN  /\ <<r.Start, r.End>> =
                  IF re.nil \/ Len(cg) = 0 THEN ReportedSpan(k) ELSE LastSpanOf(text)
             /\ r.Match = Slice(unit, r.Start, r.End)

\* one call emitted a result refined to a capture group that does not start
\* the line, and a result of a rule without capture groups refined to its
\* whole first match, away from the reported bounds
C24_Witness ==
  /\ HsLineOut
  /\ \E r, q \in Emitted :
       /\ engine.goRegexPatterns[RuleOf(r)].cap
       /\ r.Start > 1
       /\ ~engine.goRegexPatterns[RuleOf(q)].nil
       /\ ~engine.goRegexPatterns[RuleOf(q)].cap
       /\ <<q.Start, q.End>> # ReportedSpan(RuleOf(q))

\* ------------------------------------------------------------ termination
\* ScanDirectory on any Scanner the constructors build
SpecScanAnyCount == ScanInitAnyCount /\ [][ScanNext]_vars

\* every goroutine of the scan is blocked or has ended
AllBlocked == ~ENABLED ScanNext

\* C25: for every finite tree and every WorkerCount a Scanner can be built
\* with, ScanDirectory eventually returns under fair scheduling: the scan
\* never reaches, short of the return, a state in which the walker is blocked
\* on the full job queue or a worker on the full result queue with no
\* goroutine left to take a step.
C25_EventuallyReturns == AllBlocked => mainpc = "returned"


\* ------------------------------------- counters over successive scans
\* the counters of a Scanner whose earlier ScanDirectory went over one text
\* file and one empty file
EarlierScan ==
  LET f == MkEntry(FALSE, FALSE, BytesOf(<<LineMiss, LineHit>>), FALSE, FALSE,
                   <<LineMiss, LineHit>>)
      found == CHOOSE rs \in ScanLines(ScanEngine, f, 1, 1) : TRUE
  IN  [FilesScanned |-> 1, FilesSkipped |-> 1, TotalBytes |-> f.size,
       MatchesFound |-> Len(found)]

\* a later ScanDirectory on the same Scanner: nothing in its set-up touches
\* s.Metrics
ScanAgainInit == ScanInitFrom(1..MaxWorkers, EarlierScan)

SpecScanAgain == ScanAgainInit /\ [][ScanNext]_vars

\* the increase of counter c over the call
Increase(c) == Metrics[c] - EarlierScan[c]

\* the walker visited entry i without error and it is a file
VisitedFile(i) == ~tree[i].walkErr /\ ~tree[i].isDir

RECURSIVE SizeSum(_)
SizeSum(I) ==
  IF I = {} THEN 0
  ELSE LET i == CHOOSE x \in I : TRUE IN tree[i].size + SizeSum(I \ {i})

\* C27: when ScanDirectory returns, the increase of MatchesFound over the call
\* is the length of the returned list and the increase of TotalBytes is the
\* sum of the walk-time sizes of exactly the files counted in FilesScanned;
\* no step of a scan decreases a counter, so a later call on the same Scanner
\* adds to what the earlier ones left.
C27_CountersAccumulate ==
  /\ [](mainpc = "returned" =>
         /\ Increase("MatchesFound") = Len(ret)
         /\ Increase("TotalBytes") =
              SizeSum({i \in 1..Len(tree) : counted[i].FilesScanned = 1}))
  /\ [][\A c \in DOMAIN Metrics : Metrics'[c] >= Metrics[c]]_vars
  /\ [](\A c \in DOMAIN Metrics : Metrics[c] >= EarlierScan[c])

\* C27 witness: a later scan returned matches of a file scanned to its end,
\* on top of the matches and bytes of the earlier scan
C27_Witness ==
  /\ mainpc = "returned" /\ ret # <<>>
  /\ Increase("TotalBytes") > 0
  /\ Metrics.MatchesFound = EarlierScan.MatchesFound + Len(ret)
  /\ EarlierScan.MatchesFound > 0 /\ EarlierScan.TotalBytes > 0
\* ------------------------------------------- CompileRules that fails
\* C28: a CompileRules call that returns an error leaves the matcher exactly
\* as it was before the call: a fresh matcher stays empty, a compiled one
\* keeps its rules, patterns and database together.
C28_FailedCompileLeavesMatcher ==
  [][(out'.path = "compile" /\ out'.err.failed) => engine' = engine]_vars
\* --------------------------------------------- what a redaction exposes
\* redacted shows no more of match than its first p and its last s characters
ExposesAtMost(redacted, match, p, s) ==
  \E a \in 0..Min(p, Len(match)), b \in 0..Min(s, Len(match)),
     k \in 0..Len(redacted) :
    redacted = Slice(match, 0, a) \o Repeat("*", k)
                 \o Slice(match, Len(match) - b, Len(match))

\* C29: for every pair (p, s) of non-negative integers in a rule's redact
\* list, the Redacted text of each result exposes at most the first p and
\* the last s characters of the match, also when p or s is 0.
C29_ExposesAtMostOffsets ==
  out.path \in {"line", "content"} =>
    \A r \in Emitted :
      LET R == out.rules[RuleOf(r)].Redact
      IN  (Len(R) = 2 /\ R[1] >= 0 /\ R[2] >= 0) =>
            ExposesAtMost(r.Redacted, r.Match, R[1], R[2])
\* ------------------------------------------ Close beside find calls
\* HyperscanEngine has no lock: Close may run while other goroutines are in
\* FindAllInLine or FindAllInContent
CloseInFlightNext ==
  \/ PoolNext
  \/ HsClose

SpecCloseInFlight == PoolInit /\ [][CloseInFlightNext]_vars

\* C30: Close serializes with the find calls in flight on the automaton
\* matcher: no step releases the database while a find call is inside
\* database.Scan.
C30_CloseWaitsForScans ==
  [][engine'.database.frees > engine.database.frees =>
       \A c \in Callers : call[c].pc # "scan"]_vars
====
